---- MODULE Spec2Model ----
(***************************************************************************)
(* Bar-by-bar model of StockMarketBacktrading.py: the strategy             *)
(* AdvancedEMAStrategy run by cerebro over its two data feeds (the         *)
(* strategy reads only the first, self.data), with the one broker account  *)
(* (cash, positions, order queue) that cerebro.run() drives.                *)
(*                                                                         *)
(* Money is kept in thousandths of a currency unit so that the 0.1%        *)
(* commission is exact: cash = 100000.0 is StartCash * MoneyScale.         *)
(* Prices are whole currency units.  stop_loss = 0.95 and                  *)
(* take_profit = 1.10 are kept as percentages (95, 110) and compared by    *)
(* cross-multiplication.                                                   *)
(***************************************************************************)
EXTENDS Integers, Sequences, FiniteSets

VARIABLES
    len,        \* number of bars delivered so far (len(self.data))
    phase,      \* position of cerebro's run loop inside the current bar
    bar,        \* the current bar: [open, close]
    ind,        \* indicator lines at the current bar
    order,      \* self.order: None or a reference (index) into orders
    buy_price,  \* self.buy_price: None or a close price
    orders,     \* every Order object created so far, in creation order
    cash,       \* broker cash, in 1/MoneyScale currency units
    position,   \* broker position of data0: [size, price]
    bar1,       \* the current bar of the second feed, data1: [open, close]
    position1,  \* broker position of data1: [size, price]
    buflen      \* number of bars the feeds hold (self.data.buflen())

vars == <<len, phase, bar, ind, order, buy_price, orders, cash, position,
          bar1, position1, buflen>>

-----------------------------------------------------------------------------
(* Program constants *)

short_period == 8
long_period == 21
rsi_period == 14
macd1 == 12
macd2 == 26
macdsig == 9
stop_loss == 95
take_profit == 110
Percent == 100
rsi_threshold == 50
StartCash == 100000
commission == 1
MoneyScale == 1000
stake == 1

\* Python's None, for self.order and self.buy_price
None == 0
\* the value of an indicator line before its minimum period
NaN == 0

(* Bounds of the model *)

\* bars delivered after the strategy's minimum period has been reached
MaxLiveBars == 3

\* prices a bar can show; the largest one cannot be bought with StartCash
Prices == {90, 100, 110, 100000}
\* prices a bar of the second feed can show
Prices1 == {100, 110}
EmaVals == {1, 2}
RsiVals == {50, 51}
MacdVals == {1, 2}

-----------------------------------------------------------------------------
(* Minimum periods: the first bar (1-based) at which each line has a value *)

Max2(a, b) == IF a >= b THEN a ELSE b

ShortEmaMinPeriod == short_period
LongEmaMinPeriod == long_period
RsiMinPeriod == rsi_period + 1
MacdMinPeriod == Max2(macd1, macd2)
SignalMinPeriod == MacdMinPeriod + macdsig - 1

\* the strategy's next() is first called at this bar; prenext() before it
MinPeriod ==
    Max2(Max2(ShortEmaMinPeriod, LongEmaMinPeriod),
         Max2(RsiMinPeriod, SignalMinPeriod))

MaxBars == MinPeriod + MaxLiveBars - 1

LineVals(minperiod, n, vals) == IF n >= minperiod THEN vals ELSE {NaN}

\* the indicator values a bar number n can show
Indicators(n) ==
    [short_ema : LineVals(ShortEmaMinPeriod, n, EmaVals),
     long_ema  : LineVals(LongEmaMinPeriod, n, EmaVals),
     rsi       : LineVals(RsiMinPeriod, n, RsiVals),
     macd      : LineVals(MacdMinPeriod, n, MacdVals),
     signal    : LineVals(SignalMinPeriod, n, MacdVals)]

Bars == [open : Prices, close : Prices]
\* bars of the second feed: nothing reads them, two distinct ones suffice
Bars1 == {[open |-> p, close |-> p] : p \in Prices1}

-----------------------------------------------------------------------------
(* Orders and the broker *)

Alive == {"Submitted", "Accepted"}

\* Order created by buy()/sell() at bar n: a Market order, status Submitted
NewOrder(side, size, n, price) ==
    [data |-> "data0", side |-> side, size |-> size, status |-> "Submitted",
     created |-> n, createdprice |-> price, execbar |-> 0, execprice |-> 0]

\* a sizer that risks 2% of cash on the distance from entry to stop
RiskSizing(c, price) ==
    (c * 2) \div (price * (Percent - stop_loss) * MoneyScale)

\* the default sizer: FixedSize with stake = 1, whatever the cash and price
getsizing(c, price) == stake

\* cost of buying size at price, commission included, in cash units
BuyCost(size, price) == size * price * (MoneyScale + commission)

\* proceeds of selling size at price, commission deducted, in cash units
SellProceeds(size, price) == size * price * (MoneyScale - commission)

\* cash left after executing o at price against cash c
CashAfter(o, price, c) ==
    IF o.side = "buy" THEN c - BuyCost(o.size, price)
    ELSE c + SellProceeds(o.size, price)

\* a broker that executes whatever the cash
AlwaysAffordable(c) == TRUE

\* the broker executes an order only if cash does not go negative
Affordable(c) == c >= 0

\* position after executing o at price
PositionAfter(o, price, pos) ==
    LET newsize == IF o.side = "buy" THEN pos.size + o.size
                   ELSE pos.size - o.size
    IN  IF newsize = 0 THEN [size |-> 0, price |-> 0]
        ELSE IF pos.size = 0 \/ (pos.size > 0) # (newsize > 0)
             THEN [size |-> newsize, price |-> price]
        ELSE IF (o.side = "buy") = (pos.size > 0)
             THEN [size |-> newsize,
                   price |-> (pos.size * pos.price + o.size * price)
                             \div (pos.size + o.size)]
        ELSE [size |-> newsize, price |-> pos.price]

\* BackBroker.check_submit then the execution of one order on bar b of
\* number n: the submission check prices the order at its creation price,
\* the execution of a Market order at the bar's open.
\* Returns the order, cash and position afterwards.
Process(o, b, n, c, pos) ==
    IF o.status \notin Alive THEN [o |-> o, cash |-> c, position |-> pos]
    ELSE IF o.status = "Submitted"
            /\ ~Affordable(CashAfter(o, o.createdprice, c))
         THEN [o |-> [o EXCEPT !.status = "Margin"],
               cash |-> c, position |-> pos]
    ELSE IF ~Affordable(CashAfter(o, b.open, c))
         THEN [o |-> [o EXCEPT !.status = "Margin"],
               cash |-> c, position |-> pos]
    ELSE [o |-> [o EXCEPT !.status = "Completed",
                          !.execbar = n, !.execprice = b.open],
          cash |-> CashAfter(o, b.open, c),
          position |-> PositionAfter(o, b.open, pos)]

\* the broker state after processing orders 1..k of the sequence os in order
RECURSIVE ProcessAll(_, _, _, _, _, _)
ProcessAll(os, k, b, n, c, pos) ==
    IF k = 0 THEN [orders |-> os, cash |-> c, position |-> pos]
    ELSE LET before == ProcessAll(os, k - 1, b, n, c, pos)
             r == Process(before.orders[k], b, n, before.cash, before.position)
         IN  [orders |-> [before.orders EXCEPT ![k] = r.o],
              cash |-> r.cash, position |-> r.position]

-----------------------------------------------------------------------------
(* The strategy's decision rules *)

\* float comparison: any comparison with NaN is false
Gt(a, b) == a # NaN /\ b # NaN /\ a > b

\* next() without its guard on self.order
GuardDropped(o) == FALSE

\* line 53: if self.order (an Order object is always truthy)
OrderSet(o) == o # None

\* the test of line 57 inverted
FlatInverted(pos) == pos.size # 0

\* line 57: if not self.position
Flat(pos) == pos.size = 0

\* the entry rule with the RSI threshold itself accepted
EntrySignalNonStrict(i) ==
    /\ Gt(i.short_ema, i.long_ema)
    /\ i.rsi # NaN /\ i.rsi >= rsi_threshold
    /\ Gt(i.macd, i.signal)

\* line 58
EntrySignal(i) ==
    /\ Gt(i.short_ema, i.long_ema)
    /\ Gt(i.rsi, rsi_threshold)
    /\ Gt(i.macd, i.signal)

\* lines 64-66.  The thresholds are compared exactly; Python's float
\* product buy_price * take_profit can differ from the exact one in the last
\* bit, which matters only when close sits exactly on a threshold.
ExitSignal(b, bp, i) ==
    \/ b.close * Percent <= bp * stop_loss
    \/ b.close * Percent >= bp * take_profit
    \/ Gt(i.long_ema, i.short_ema)

-----------------------------------------------------------------------------
(* cerebro.run(): per bar, the data advances, the broker processes its      *)
(* orders, then the strategy's prenext() or next() is called               *)

\* a run loop that calls the strategy before the broker on each bar
StrategyBeforeBroker(p) ==
    CASE p = "data" -> "strategy"
      [] p = "strategy" -> "broker"
      [] p = "broker" -> "data"

NextPhase(p) ==
    CASE p = "data" -> "broker"
      [] p = "broker" -> "strategy"
      [] p = "strategy" -> "data"

Init ==
    /\ len = 0
    /\ phase = "data"
    /\ bar = [open |-> 0, close |-> 0]
    /\ ind = [short_ema |-> NaN, long_ema |-> NaN, rsi |-> NaN,
              macd |-> NaN, signal |-> NaN]
    /\ order = None
    /\ buy_price = None
    /\ orders = <<>>
    /\ cash = StartCash * MoneyScale
    /\ position = [size |-> 0, price |-> 0]
    /\ bar1 = [open |-> 0, close |-> 0]
    /\ position1 = [size |-> 0, price |-> 0]
    /\ buflen = MaxBars

\* the data feeds deliver their next bar and the indicators advance
DataAdvance ==
    /\ phase = "data"
    /\ len < buflen
    /\ len' = len + 1
    /\ bar' \in Bars
    /\ bar1' \in Bars1
    /\ ind' \in Indicators(len + 1)
    /\ phase' = NextPhase(phase)
    /\ UNCHANGED <<order, buy_price, orders, cash, position, position1, buflen>>

\* broker.next(): check and execute the orders submitted on earlier bars
BrokerNext ==
    /\ phase = "broker"
    /\ LET r == ProcessAll(orders, Len(orders), bar, len, cash, position)
       IN  /\ orders' = r.orders
           /\ cash' = r.cash
           /\ position' = r.position
    /\ phase' = NextPhase(phase)
    /\ UNCHANGED <<len, bar, ind, order, buy_price, bar1, position1, buflen>>

\* Strategy.prenext(): the default, which does nothing
Prenext ==
    /\ phase = "strategy"
    /\ len < MinPeriod
    /\ phase' = NextPhase(phase)
    /\ UNCHANGED <<len, bar, ind, order, buy_price, orders, cash, position,
                   bar1, position1, buflen>>

\* self.buy() / self.sell(): size from the sizer, order handed to the broker
Issue(side) ==
    /\ orders' = Append(orders,
                        NewOrder(side, getsizing(cash, bar.close), len, bar.close))
    /\ order' = Len(orders) + 1

\* AdvancedEMAStrategy.next()
StrategyNext ==
    /\ phase = "strategy"
    /\ len >= MinPeriod
    /\ IF OrderSet(order)
       THEN UNCHANGED <<order, buy_price, orders>>
       ELSE IF Flat(position)
            THEN IF EntrySignal(ind)
                 THEN Issue("buy") /\ buy_price' = bar.close
                 ELSE UNCHANGED <<order, buy_price, orders>>
            ELSE IF ExitSignal(bar, buy_price, ind)
                 THEN Issue("sell") /\ UNCHANGED buy_price
                 ELSE UNCHANGED <<order, buy_price, orders>>
    /\ phase' = NextPhase(phase)
    /\ UNCHANGED <<len, bar, ind, cash, position, bar1, position1, buflen>>

\* cerebro.run() returns once the feeds are exhausted
Finish ==
    /\ phase = "data"
    /\ len = buflen
    /\ phase' = "done"
    /\ UNCHANGED <<len, bar, ind, order, buy_price, orders, cash, position,
                   bar1, position1, buflen>>

Next == DataAdvance \/ BrokerNext \/ Prenext \/ StrategyNext \/ Finish

Spec == Init /\ [][Next]_vars

-----------------------------------------------------------------------------
(* Properties *)

\* indices of the orders the broker has not yet resolved
LiveOrders == {i \in 1..Len(orders) : orders[i].status \in Alive}

\* indices of the orders created on the current bar
CreatedThisBar == {i \in 1..Len(orders) : orders[i].created = len}

\* this step appended one order of the given side
Issued(side) ==
    /\ Len(orders') = Len(orders) + 1
    /\ orders'[Len(orders')].side = side

\* next() is about to run on the current bar
AtNext == phase = "strategy" /\ len >= MinPeriod

\* C1: an order issued by next() at bar t is resolved by the broker on bar
\* t+1 and self.order is then cleared: when next() runs, self.order is set
\* only while the order it refers to is still awaiting resolution.
C1_PendingOrderCleared ==
    (AtNext /\ order # None) => orders[order].status \in Alive

\* C2: when next() runs with a long position whose entry order has filled
\* and close <= buy_price * stop_loss, or close >= buy_price * take_profit,
\* or short EMA < long EMA, this call of next() issues a sell.
C2_ExitIssuesSell ==
    [][(/\ AtNext
        /\ position.size > 0
        /\ \/ bar.close * Percent <= buy_price * stop_loss
           \/ bar.close * Percent >= buy_price * take_profit
           \/ ind.short_ema < ind.long_ema)
       => Issued("sell")]_vars

\* C3: when next() runs flat with self.order unset, it issues a buy if and
\* only if short EMA > long EMA and RSI > 50 and MACD > signal, all strict;
\* otherwise it issues nothing.
C3_EntryRule ==
    [][(AtNext /\ order = None /\ position.size = 0)
       => /\ Issued("buy")
             <=> (/\ ind.short_ema > ind.long_ema
                  /\ ind.rsi > rsi_threshold
                  /\ ind.macd > ind.signal)
          /\ ~Issued("buy") => orders' = orders]_vars

\* next() has just issued a buy on the current bar
C3_Witness ==
    /\ phase = "data"
    /\ len >= MinPeriod
    /\ \E i \in CreatedThisBar : orders[i].side = "buy"

\* C4: a call of next() with self.order set issues nothing and changes no
\* strategy or broker state; at most one order is outstanding and at most
\* one order is created per bar.
C4_OneOrderInFlight ==
    /\ [](Cardinality(LiveOrders) <= 1 /\ Cardinality(CreatedThisBar) <= 1)
    /\ [][(AtNext /\ order # None)
          => UNCHANGED <<order, buy_price, orders, cash, position>>]_vars

\* next() has run on the current bar with self.order set on an earlier bar
C4_Witness ==
    /\ phase = "data"
    /\ len >= MinPeriod
    /\ order # None
    /\ orders[order].created < len

\* C5: an order created at bar t is untouched by the broker during bar t;
\* next() leaves cash and position unchanged; an executed order was
\* executed on the bar after the one that created it.
C5_OneBarLatency ==
    /\ [](\A i \in 1..Len(orders) :
            /\ orders[i].created = len => orders[i].status = "Submitted"
            /\ orders[i].status = "Completed"
               => orders[i].execbar = orders[i].created + 1)
    /\ [][phase = "strategy" => UNCHANGED <<cash, position>>]_vars

\* the entry order has been executed on the bar after its creation
C5_Witness ==
    /\ position.size > 0
    /\ \E i \in 1..Len(orders) :
          /\ orders[i].status = "Completed"
          /\ orders[i].execbar = len
          /\ orders[i].created = len - 1

\* size is (cash * 0.02) / (entry - stop) with stop = entry * stop_loss,
\* exactly or rounded down to a whole unit; c is in cash units
RiskSized(size, c, entry) ==
    LET risk == c * 2
        perunit == entry * (Percent - stop_loss) * MoneyScale
    IN  size * perunit <= risk /\ risk < (size + 1) * perunit

C7_CashNeverNegative ==
    /\ [](cash >= 0)
    /\ [][position'.size > position.size
          => (position'.size - position.size) * bar.open * MoneyScale
             <= cash]_vars

\* a buy has been executed and paid, commission included
C7_Witness ==
    /\ position.size > 0
    /\ cash = StartCash * MoneyScale - BuyCost(position.size, position.price)

\* C8: whenever the position is long, buy_price is set and
\* buy_price * stop_loss < fill price of the entry < buy_price * take_profit.
C8_ThresholdsBracketEntry ==
    position.size > 0
    => /\ buy_price # None
       /\ buy_price * stop_loss < position.price * Percent
       /\ position.price * Percent < buy_price * take_profit

\* C9: whenever the position is flat and no order awaits resolution,
\* buy_price is cleared.
C9_FlatHasNoThresholds ==
    (position.size = 0 /\ LiveOrders = {}) => buy_price = None

\* C10: every sell issued by next() requests the whole position.
C10_SellIsFullPosition ==
    [][(phase = "strategy" /\ Issued("sell"))
       => orders'[Len(orders')].size = position.size]_vars

\* next() has issued a sell.  No behaviour reaches such a state: once the
\* entry is issued self.order stays set, so the formula above holds only
\* because its premise never does.
C10_SellIssued == \E i \in 1..Len(orders) : orders[i].side = "sell"

\* C11: after the broker rejects a buy for lack of cash the position is flat,
\* cash is untouched and no order awaits resolution, and the strategy can
\* enter again: a later call of next() that sees the entry signal issues a buy.
C11_RejectionRecoverable ==
    [][(/\ AtNext
        /\ position.size = 0
        /\ cash = StartCash * MoneyScale
        /\ LiveOrders = {}
        /\ \E i \in 1..Len(orders) : orders[i].status = "Margin"
        /\ ind.short_ema > ind.long_ema
        /\ ind.rsi > rsi_threshold
        /\ ind.macd > ind.signal)
       => Issued("buy")]_vars

\* the cash an order on feed d draws on: cerebro holds one broker, so every
\* feed trades against the same cash
AccountCash(d) == cash

\* C12: each instrument has its own position, pending order and account: a
\* fill on the first instrument changes neither the position nor the
\* account cash of the second.
C12_InstrumentIsolation ==
    [][position' # position
       => /\ position1' = position1
          /\ AccountCash("data1")' = AccountCash("data1")]_vars

-----------------------------------------------------------------------------
(* A run over feeds whose close never changes.  cerebro.run() preloads the  *)
(* feeds and computes every indicator over the whole feed (runonce) before  *)
(* the first bar is delivered.                                             *)

\* longest flat feed
MaxFlatBars == 30

\* broker.getvalue(): cash plus the positions at the current closes
Value ==
    cash + (position.size * bar.close + position1.size * bar1.close) * MoneyScale

\* DownDay of RSI_SMA: the fall from the previous close, or 0
DownDay(prev, cur) == IF prev > cur THEN prev - cur ELSE 0

\* the average DownDay over rsi_period bars of a feed of constant close c
FlatDownAverage(c) == (rsi_period * DownDay(c, c)) \div rsi_period

\* rs = maup / madown is a Python float division (RSI_SMA is built without
\* safediv): it raises ZeroDivisionError on a zero divisor
DivisionRaises(divisor) == divisor = 0

\* indicator values at bar n of a feed of constant close c.  The EMAs of a
\* constant are that constant.  rsi, macd and signal have values only from
\* bar RsiMinPeriod on, and a flat feed that long never delivers a bar.
FlatIndicators(n, c) ==
    [short_ema |-> IF n >= ShortEmaMinPeriod THEN c ELSE NaN,
     long_ema  |-> IF n >= LongEmaMinPeriod THEN c ELSE NaN,
     rsi       |-> NaN,
     macd      |-> NaN,
     signal    |-> NaN]

\* feeds of buflen bars, preloaded; bar.close holds the constant close
InitFlat ==
    /\ len = 0
    /\ phase = "once"
    /\ bar \in {[open |-> 0, close |-> c] : c \in Prices}
    /\ bar1 \in Bars1
    /\ ind = [short_ema |-> NaN, long_ema |-> NaN, rsi |-> NaN,
              macd |-> NaN, signal |-> NaN]
    /\ order = None
    /\ buy_price = None
    /\ orders = <<>>
    /\ cash = StartCash * MoneyScale
    /\ position = [size |-> 0, price |-> 0]
    /\ position1 = [size |-> 0, price |-> 0]
    /\ buflen \in 1..MaxFlatBars

\* the indicators are computed over the whole feed: the RSI has values once
\* the feed holds RsiMinPeriod bars, and computing them divides by the
\* average DownDay
RunOnceFlat ==
    /\ phase = "once"
    /\ phase' = IF buflen >= RsiMinPeriod
                   /\ DivisionRaises(FlatDownAverage(bar.close))
                THEN "error"
                ELSE "data"
    /\ UNCHANGED <<len, bar, ind, order, buy_price, orders, cash, position,
                   bar1, position1, buflen>>

\* the feeds deliver their next bar: any open, the same close
DataAdvanceFlat ==
    /\ phase = "data"
    /\ len < buflen
    /\ len' = len + 1
    /\ bar' \in {[open |-> o, close |-> bar.close] : o \in Prices}
    /\ ind' = FlatIndicators(len + 1, bar.close)
    /\ phase' = NextPhase(phase)
    /\ UNCHANGED <<order, buy_price, orders, cash, position,
                   bar1, position1, buflen>>

\* next() is left out: it needs MinPeriod bars, and a flat feed delivers
\* fewer than RsiMinPeriod
NextFlat == RunOnceFlat \/ DataAdvanceFlat \/ BrokerNext \/ Prenext \/ Finish

SpecFlat == InitFlat /\ [][NextFlat]_vars

\* C13: on feeds of constant close no order is ever issued, the position is
\* flat in every state, and the run ends with a portfolio value equal to the
\* initial cash.
C13_FlatMarketNoTrades ==
    /\ orders = <<>>
    /\ position.size = 0
    /\ phase # "error"
    /\ phase = "done" => Value = StartCash * MoneyScale

-----------------------------------------------------------------------------
(* Properties of the exit rule and of the position *)

\* no exit condition holds on the current bar
NoExitCondition ==
    /\ bar.close * Percent > buy_price * stop_loss
    /\ bar.close * Percent < buy_price * take_profit
    /\ ind.short_ema >= ind.long_ema

\* C14: a sell is issued on a bar only if the position is long, no order
\* awaits resolution and an exit condition holds on that bar; when next()
\* runs with a long position and no exit condition, it issues nothing.
C14_ExitsOnlyRuleDriven ==
    [][/\ Issued("sell")
          => (position.size > 0 /\ LiveOrders = {} /\ ~NoExitCondition)
       /\ (AtNext /\ position.size > 0 /\ NoExitCondition)
          => UNCHANGED <<orders, order, position>>]_vars

\* next() has run on the current bar with a long position and no exit
\* condition, and the position is held
C14_Witness ==
    /\ phase = "data"
    /\ len >= MinPeriod
    /\ position.size > 0
    /\ NoExitCondition
    /\ CreatedThisBar = {}

\* C15: no order is issued on a bar at which an indicator has no value yet,
\* and a run over fewer bars than the longest warm-up (MinPeriod) completes
\* without error and without an order.
C15_ShortRunCompletes ==
    /\ \A i \in 1..Len(orders) : orders[i].created >= MinPeriod
    /\ buflen < MinPeriod => (phase # "error" /\ orders = <<>>)

\* C16: whenever next() reaches its exit branch (self.order unset, position
\* not flat) buy_price is set; indeed buy_price is set whenever the position
\* is not flat, whatever the bars, fills and rejections before.
C16_ExitBranchHasBuyPrice ==
    /\ (AtNext /\ ~OrderSet(order) /\ ~Flat(position)) => buy_price # None
    /\ position.size # 0 => buy_price # None

\* next() is about to run with a position and the entry reference it set
C16_Witness ==
    /\ AtNext
    /\ position.size # 0
    /\ buy_price # None
    /\ buy_price = orders[order].createdprice

\* C17: the position is never negative and is either flat or the size of a
\* single entry order; orders alternate buy, sell, buy, ... starting with a
\* buy; a buy is issued only when flat and a sell only when long.
C17_LongOnlyNoPyramiding ==
    /\ [](/\ position.size >= 0
          /\ position.size # 0
             => \E i \in 1..Len(orders) :
                   /\ orders[i].side = "buy"
                   /\ orders[i].status = "Completed"
                   /\ orders[i].size = position.size
          /\ \A i \in 1..Len(orders) :
                orders[i].side = IF i % 2 = 1 THEN "buy" ELSE "sell")
    /\ [][/\ Issued("buy") => position.size = 0
          /\ Issued("sell") => position.size > 0]_vars

\* the position is long by exactly the one entry order issued
C17_Witness ==
    /\ Len(orders) = 1
    /\ orders[1].side = "buy"
    /\ orders[1].status = "Completed"
    /\ position.size = orders[1].size
    /\ position.size > 0

====
